---- MODULE Spec2Model ----
(***************************************************************************)
(* Model of the go-barretenberg bindings (package barretenberg / noir):    *)
(* the four host-facing operations InitSRS, ProveUltraHonk, GetVkUltraHonk *)
(* and VerifyUltraHonk, the BBResult translation resultToBytes, the        *)
(* settings encoding, and the BB_BACKEND_TYPE selector.                    *)
(*                                                                         *)
(* Go and C strings are sequences of one-character strings; a C string in  *)
(* memory carries its terminating NUL.  Byte slices are sequences of       *)
(* numbers.  C memory is a table of cells, one table for the host's        *)
(* malloc/free heap and one for the engine's allocator.                    *)
(***************************************************************************)
EXTENDS Integers, Sequences, FiniteSets, TLC

\* ------------------------------------------------------------------ bounds
\* Cells of the host C heap (C.CString / C.free).
CHandles == 3
\* Cells of the engine's heap (spans and messages owned by the engine).
NHandles == 2

\* ----------------------------------------------------------------- strings
NULL == 0
NUL == "\\0"

\* "poseidon2", "keccak", "blake2s"
HashPoseidon2 == <<"p", "o", "s", "e", "i", "d", "o", "n", "2">>
HashKeccak == <<"k", "e", "c", "c", "a", "k">>
HashBlake2s == <<"b", "l", "a", "k", "e", "2", "s">>

\* The three tokens the constants of OracleHashType name.
FixedTokens == {HashPoseidon2, HashKeccak, HashBlake2s}

\* OracleHashType is an open string type: the zero value "" and any other
\* string are constructible.  "Keccak" and a token holding a quote stand for
\* them.
OtherTokens == {<< >>, <<"K", "e", "c", "c", "a", "k">>, <<"k", "\"">>}

HashTokens == FixedTokens \cup OtherTokens

\* The values of the three flags the model draws settings from.
FlagChoices == {<<FALSE, FALSE, FALSE>>, <<TRUE, FALSE, TRUE>>}

ProofSystemSettings ==
  {[IpaAccumulation |-> f[1], OracleHashType |-> h,
    DisableZk |-> f[2], OptimizedSolidityVerifier |-> f[3]] :
     f \in FlagChoices, h \in HashTokens}

DefaultSettings ==
  [IpaAccumulation |-> FALSE, OracleHashType |-> HashPoseidon2,
   DisableZk |-> FALSE, OptimizedSolidityVerifier |-> FALSE]

\* ------------------------------------------------------------- Go values
\* An error value: nil, or errors.New(text).
NoErr == [nil |-> TRUE, text |-> << >>]
ErrorsNew(text) == [nil |-> FALSE, text |-> text]

\* "unknown error from backend"
UnknownErrorText ==
  <<"u", "n", "k", "n", "o", "w", "n", " ", "e", "r", "r", "o", "r", " ",
    "f", "r", "o", "m", " ", "b", "a", "c", "k", "e", "n", "d">>

\* ------------------------------------------------------------ encoding/json
RECURSIVE Flatten(_)
Flatten(ss) == IF ss = << >> THEN << >> ELSE Head(ss) \o Flatten(Tail(ss))

\* encoding/json writes a string between quotes, a quote as \" and a
\* backslash as \\ .
EscapeChar(c) ==
  IF c = "\"" THEN <<"\\", "\"">>
  ELSE IF c = "\\" THEN <<"\\", "\\">>
  ELSE <<c>>

EncodeString(s) ==
  <<"\"">> \o Flatten([i \in 1..Len(s) |-> EscapeChar(s[i])]) \o <<"\"">>

EncodeBool(b) ==
  IF b THEN <<"t", "r", "u", "e">> ELSE <<"f", "a", "l", "s", "e">>

\* json.Marshal of the struct without its json tags: the keys are the Go
\* field names.
JsonMarshal_NoTags(s) ==
  [err |-> NoErr,
   data |->
     <<"{", "\"", "I", "p", "a", "A", "c", "c", "u", "m", "u", "l", "a", "t",
       "i", "o", "n", "\"", ":">>
     \o EncodeBool(s.IpaAccumulation)
     \o <<",", "\"", "O", "r", "a", "c", "l", "e", "H", "a", "s", "h", "T",
          "y", "p", "e", "\"", ":">>
     \o EncodeString(s.OracleHashType)
     \o <<",", "\"", "D", "i", "s", "a", "b", "l", "e", "Z", "k", "\"", ":">>
     \o EncodeBool(s.DisableZk)
     \o <<",", "\"", "O", "p", "t", "i", "m", "i", "z", "e", "d", "S", "o",
          "l", "i", "d", "i", "t", "y", "V", "e", "r", "i", "f", "i", "e",
          "r", "\"", ":">>
     \o EncodeBool(s.OptimizedSolidityVerifier)
     \o <<"}">>]

\* json.Marshal(settings): the fields in declaration order under their json
\* tags.  No field of the struct has a type whose encoding can fail, so err
\* is always nil.
JsonMarshal(s) ==
  [err |-> NoErr,
   data |->
     <<"{", "\"", "i", "p", "a", "_", "a", "c", "c", "u", "m", "u", "l", "a",
       "t", "i", "o", "n", "\"", ":">>
     \o EncodeBool(s.IpaAccumulation)
     \o <<",", "\"", "o", "r", "a", "c", "l", "e", "_", "h", "a", "s", "h",
          "_", "t", "y", "p", "e", "\"", ":">>
     \o EncodeString(s.OracleHashType)
     \o <<",", "\"", "d", "i", "s", "a", "b", "l", "e", "_", "z", "k", "\"",
          ":">>
     \o EncodeBool(s.DisableZk)
     \o <<",", "\"", "o", "p", "t", "i", "m", "i", "z", "e", "d", "_", "s",
          "o", "l", "i", "d", "i", "t", "y", "_", "v", "e", "r", "i", "f",
          "i", "e", "r", "\"", ":">>
     \o EncodeBool(s.OptimizedSolidityVerifier)
     \o <<"}">>]

\* ---------------------------------------------------------------- C memory
Cell == [live |-> FALSE, mem |-> << >>]

EmptyMemory(n) == [cells |-> [h \in 1..n |-> Cell], badFree |-> FALSE, uaf |-> FALSE]

HasRoom(m) == \E h \in DOMAIN m.cells : ~m.cells[h].live

\* The cell the next allocation returns.
NextHandle(m) ==
  CHOOSE h \in DOMAIN m.cells :
    /\ ~m.cells[h].live
    /\ \A g \in DOMAIN m.cells : g < h => m.cells[g].live

Alloc(m, content) ==
  [m EXCEPT !.cells[NextHandle(m)] = [live |-> TRUE, mem |-> content]]

\* Releasing a cell that is not allocated is a double free; releasing the
\* null pointer does nothing.
Release(m, h) ==
  IF h = NULL THEN m
  ELSE IF m.cells[h].live THEN [m EXCEPT !.cells[h] = Cell]
  ELSE [m EXCEPT !.badFree = TRUE]

\* A read through a pointer to a released cell is recorded.
Touch(m, h) == IF m.cells[h].live THEN m ELSE [m EXCEPT !.uaf = TRUE]

Live(m) == {h \in DOMAIN m.cells : m.cells[h].live}

\* ---------------------------------------------------------------- cgo
\* C.CString: a malloc'ed copy of the Go string with a terminating NUL.
CString(s) == s \o <<NUL>>

\* C.GoString: the characters before the first NUL.
GoString(mem) ==
  LET nuls == {i \in 1..Len(mem) : mem[i] = NUL}
      end == IF nuls = {} THEN Len(mem) + 1
             ELSE CHOOSE i \in nuls : \A j \in nuls : i <= j
  IN SubSeq(mem, 1, end - 1)

\* C.GoBytes(p, C.int(n)): a Go copy of the first n bytes at p.  The spans of
\* the model are a few bytes long, far below the 2^31 where C.int(n) and n
\* part.
GoBytes(mem, n) == SubSeq(mem, 1, n)

\* ------------------------------------------------------- BBResult (header)
ByteBuffer(ptr, len, cap) == [ptr |-> ptr, len |-> len, cap |-> cap]
NullBuffer == ByteBuffer(NULL, 0, 0)
BBResult(ok, err, data) == [ok |-> ok, err |-> err, data |-> data]
NoResult == BBResult(TRUE, NULL, NullBuffer)

\* void bb_free_bytes(ByteBuffer buf); void bb_free_err(char *s);
bb_free_bytes(nm, buf) == Release(nm, buf.ptr)
bb_free_err(nm, s) == Release(nm, s)

\* resultToBytes that reads the message of an Err envelope and never
\* releases it.
resultToBytes_LeakErr(r, nm) ==
  IF ~r.ok
  THEN IF r.err = NULL
       THEN [data |-> << >>, err |-> ErrorsNew(UnknownErrorText), nmem |-> nm]
       ELSE [data |-> << >>, err |-> ErrorsNew(GoString(nm.cells[r.err].mem)),
             nmem |-> Touch(nm, r.err)]
  ELSE IF r.data.ptr = NULL \/ r.data.len = 0
       THEN [data |-> << >>, err |-> NoErr, nmem |-> bb_free_bytes(nm, r.data)]
       ELSE [data |-> GoBytes(nm.cells[r.data.ptr].mem, r.data.len),
             err |-> NoErr,
             nmem |-> bb_free_bytes(Touch(nm, r.data.ptr), r.data)]

\* resultToBytes that wraps the engine's message ("backend: " + msg).
resultToBytes_Wrap(r, nm) ==
  IF ~r.ok
  THEN IF r.err = NULL
       THEN [data |-> << >>, err |-> ErrorsNew(UnknownErrorText), nmem |-> nm]
       ELSE LET msg == GoString(nm.cells[r.err].mem)
            IN [data |-> << >>,
                err |-> ErrorsNew(<<"b", "a", "c", "k", "e", "n", "d", ":", " ">> \o msg),
                nmem |-> bb_free_err(Touch(nm, r.err), r.err)]
  ELSE IF r.data.ptr = NULL \/ r.data.len = 0
       THEN [data |-> << >>, err |-> NoErr, nmem |-> bb_free_bytes(nm, r.data)]
       ELSE [data |-> GoBytes(nm.cells[r.data.ptr].mem, r.data.len),
             err |-> NoErr,
             nmem |-> bb_free_bytes(Touch(nm, r.data.ptr), r.data)]

\* resultToBytes that reports an Ok envelope with an empty span as a failure.
resultToBytes_EmptyFails(r, nm) ==
  IF ~r.ok
  THEN IF r.err = NULL
       THEN [data |-> << >>, err |-> ErrorsNew(UnknownErrorText), nmem |-> nm]
       ELSE LET msg == GoString(nm.cells[r.err].mem)
            IN [data |-> << >>, err |-> ErrorsNew(msg),
                nmem |-> bb_free_err(Touch(nm, r.err), r.err)]
  ELSE IF r.data.ptr = NULL \/ r.data.len = 0
       THEN [data |-> << >>, err |-> ErrorsNew(UnknownErrorText),
             nmem |-> bb_free_bytes(nm, r.data)]
       ELSE [data |-> GoBytes(nm.cells[r.data.ptr].mem, r.data.len),
             err |-> NoErr,
             nmem |-> bb_free_bytes(Touch(nm, r.data.ptr), r.data)]

\* resultToBytes that reports every failure as "unknown error from backend".
resultToBytes_Anonymous(r, nm) ==
  IF ~r.ok
  THEN [data |-> << >>, err |-> ErrorsNew(UnknownErrorText),
        nmem |-> IF r.err = NULL THEN nm ELSE bb_free_err(Touch(nm, r.err), r.err)]
  ELSE IF r.data.ptr = NULL \/ r.data.len = 0
       THEN [data |-> << >>, err |-> NoErr, nmem |-> bb_free_bytes(nm, r.data)]
       ELSE [data |-> GoBytes(nm.cells[r.data.ptr].mem, r.data.len),
             err |-> NoErr,
             nmem |-> bb_free_bytes(Touch(nm, r.data.ptr), r.data)]

\* resultToBytes that frees the engine's message before reading it.
resultToBytes_FreeErrFirst(r, nm) ==
  IF ~r.ok
  THEN IF r.err = NULL
       THEN [data |-> << >>, err |-> ErrorsNew(UnknownErrorText), nmem |-> nm]
       ELSE LET freed == bb_free_err(nm, r.err)
                msg == GoString(freed.cells[r.err].mem)
            IN [data |-> << >>, err |-> ErrorsNew(msg),
                nmem |-> Touch(freed, r.err)]
  ELSE IF r.data.ptr = NULL \/ r.data.len = 0
       THEN [data |-> << >>, err |-> NoErr, nmem |-> bb_free_bytes(nm, r.data)]
       ELSE [data |-> GoBytes(nm.cells[r.data.ptr].mem, r.data.len),
             err |-> NoErr,
             nmem |-> bb_free_bytes(Touch(nm, r.data.ptr), r.data)]

\* resultToBytes(r): the Go result (data, err) and the engine heap after the
\* releases it makes.  The deferred bb_free_bytes runs after the copy.
resultToBytes(r, nm) ==
  IF ~r.ok
  THEN IF r.err = NULL
       THEN [data |-> << >>, err |-> ErrorsNew(UnknownErrorText), nmem |-> nm]
       ELSE LET msg == GoString(nm.cells[r.err].mem)
            IN [data |-> << >>, err |-> ErrorsNew(msg),
                nmem |-> bb_free_err(Touch(nm, r.err), r.err)]
  ELSE IF r.data.ptr = NULL \/ r.data.len = 0
       THEN [data |-> << >>, err |-> NoErr, nmem |-> bb_free_bytes(nm, r.data)]
       ELSE [data |-> GoBytes(nm.cells[r.data.ptr].mem, r.data.len),
             err |-> NoErr,
             nmem |-> bb_free_bytes(Touch(nm, r.data.ptr), r.data)]

\* ------------------------------------------------------------ input domains
\* Circuit bytecode strings: one the engine accepts, one it rejects.
Bytecodes == {<<"A">>, <<"!">>}
\* Witness JSON strings: one that satisfies the circuits, one that does not.
Witnesses == {<<"w">>, <<"x">>}

\* ------------------------------------------------- the native engine (FFI)
ValidCircuit(b) == b = <<"A">>
Satisfies(w, b) == ValidCircuit(b) /\ w = <<"w">>
CircuitId(b) == IF b = <<"A">> THEN 10 ELSE 0

ValidSettings == {s \in ProofSystemSettings : s.OracleHashType \in FixedTokens}

\* The engine decodes the settings JSON; a token outside the fixed set is a
\* configuration error.
EngineKnows(json) == \E s \in ValidSettings : JsonMarshal(s).data = json
EngineDecode(json) == CHOOSE s \in ValidSettings : JsonMarshal(s).data = json

SettingsId(s) ==
  (IF s.OracleHashType = HashPoseidon2 THEN 0
   ELSE IF s.OracleHashType = HashKeccak THEN 8 ELSE 16)
  + (IF s.IpaAccumulation THEN 4 ELSE 0)
  + (IF s.DisableZk THEN 2 ELSE 0)
  + (IF s.OptimizedSolidityVerifier THEN 1 ELSE 0)

ProofBytes(b, s) == <<1, CircuitId(b), SettingsId(s)>>
VkBytes(b, s) == <<2, CircuitId(b), SettingsId(s)>>

\* "bad bytecode", "bad settings", "unsatisfied", "backend terminated"
MsgBytecode == <<"b", "a", "d", " ", "b", "y", "t", "e", "c", "o", "d", "e">>
MsgSettings == <<"b", "a", "d", " ", "s", "e", "t", "t", "i", "n", "g", "s">>
MsgWitness == <<"u", "n", "s", "a", "t", "i", "s", "f", "i", "e", "d">>
MsgBackendTerminated ==
  <<"b", "a", "c", "k", "e", "n", "d", " ",
    "t", "e", "r", "m", "i", "n", "a", "t", "e", "d">>

\* What the engine hands back, before it is laid out in a BBResult:
\*   OkData  Ok with a non-empty span       OkNull  Ok with the null span
\*   OkSpare Ok with an allocated span of length zero
\*   ErrMsg  Err with a message             ErrNull Err with a null message
Outcome(kind, bytes, msg) == [kind |-> kind, bytes |-> bytes, msg |-> msg]
EngineOk(bytes) ==
  Outcome(IF bytes = << >> THEN "OkNull" ELSE "OkData", bytes, << >>)
EngineErr(msg) == Outcome("ErrMsg", << >>, msg)
NoOutcome == Outcome("none", << >>, << >>)

\* The BBResult for an outcome and the engine heap holding its span or
\* message.
Layout(o, nm) ==
  LET h == NextHandle(nm)
  IN CASE o.kind = "OkData" ->
            [r |-> BBResult(TRUE, NULL, ByteBuffer(h, Len(o.bytes), Len(o.bytes))),
             nmem |-> Alloc(nm, o.bytes)]
       [] o.kind = "OkSpare" ->
            [r |-> BBResult(TRUE, NULL, ByteBuffer(h, 0, 4)),
             nmem |-> Alloc(nm, << >>)]
       [] o.kind = "ErrMsg" ->
            [r |-> BBResult(FALSE, h, NullBuffer),
             nmem |-> Alloc(nm, CString(o.msg))]
       [] o.kind = "ErrNull" ->
            [r |-> BBResult(FALSE, NULL, NullBuffer), nmem |-> nm]
       [] OTHER ->
            [r |-> BBResult(TRUE, NULL, NullBuffer), nmem |-> nm]

NeedsCell(o) == o.kind \in {"OkData", "OkSpare", "ErrMsg"}

InitSrsOutcome(bytecode) ==
  IF ValidCircuit(bytecode) THEN EngineOk(<< >>) ELSE EngineErr(MsgBytecode)

ProveOutcome(bytecode, witness, json) ==
  IF ~ValidCircuit(bytecode) THEN EngineErr(MsgBytecode)
  ELSE IF ~EngineKnows(json) THEN EngineErr(MsgSettings)
  ELSE IF ~Satisfies(witness, bytecode) THEN EngineErr(MsgWitness)
  ELSE EngineOk(ProofBytes(bytecode, EngineDecode(json)))

GetVkOutcome(bytecode, json) ==
  IF ~ValidCircuit(bytecode) THEN EngineErr(MsgBytecode)
  ELSE IF ~EngineKnows(json) THEN EngineErr(MsgSettings)
  ELSE EngineOk(VkBytes(bytecode, EngineDecode(json)))

VerifyOutcome(proof, vk, json) ==
  /\ EngineKnows(json)
  /\ Len(proof) = 3 /\ Len(vk) = 3
  /\ proof[1] = 1 /\ vk[1] = 2
  /\ proof[2] = vk[2] /\ proof[3] = vk[3]
  /\ proof[3] = SettingsId(EngineDecode(json))

\* Canned envelopes of an instrumented engine.
MockData == {<<7>>, <<7, 8, 9>>}
MockMsgs == {<< >>, <<"e">>, <<"o", "o", "m", ":", " ", "\"", "x", "\"">>}
MockOutcomes ==
  {Outcome("OkData", d, << >>) : d \in MockData}
    \cup {Outcome("ErrMsg", << >>, m) : m \in MockMsgs}
    \cup {Outcome("OkNull", << >>, << >>), Outcome("OkSpare", << >>, << >>),
          Outcome("ErrNull", << >>, << >>)}

\* -------------------------------------------------------------------- state
VARIABLES
  pc,         \* "idle", "native" (inside the engine), "returned"
  op,         \* the operation in progress, or the last one completed
  args,       \* its Go arguments
  frame,      \* its C pointers: cBytecode, cWJSON, cSettings
  cmem,       \* the host C heap
  nmem,       \* the engine heap
  r,          \* the BBResult the engine returned
  verdict,    \* the bool bb_verify_ultrahonk returned
  sent,       \* what the engine handed back in this call
  ret,        \* what the operation returned to its caller
  proofSlot,  \* the caller's proof, err := ProveUltraHonk(...)
  vkSlot,     \* the caller's vk, err := GetVkUltraHonk(...)
  env,        \* BB_BACKEND_TYPE in the process environment
  lastSet,    \* the argument of the latest SetBackendType
  got,        \* the result of the latest GetBackendType since then
  seen,       \* the settings string an instrumented engine last recorded
  worker,     \* the state of the bb worker process
  req         \* the bridge's record of the latest request to the worker

vars == <<pc, op, args, frame, cmem, nmem, r, verdict, sent, ret, proofSlot, vkSlot,
          env, lastSet, got, seen, worker, req>>
isolation == <<worker, req>>
backend == <<env, lastSet, got>>
bindings == <<pc, op, args, frame, cmem, nmem, r, verdict, sent, ret, proofSlot, vkSlot>>

Args(bytecode, witness, settings, proof, vk) ==
  [bytecode |-> bytecode, witness |-> witness, settings |-> settings,
   proof |-> proof, vk |-> vk]
NoArgs == Args(<< >>, << >>, DefaultSettings, << >>, << >>)

Frame(cBytecode, cWJSON, cSettings, invoked) ==
  [cBytecode |-> cBytecode, cWJSON |-> cWJSON, cSettings |-> cSettings,
   invoked |-> invoked]
NoFrame == Frame(NULL, NULL, NULL, FALSE)

Ret(data, err, success) == [data |-> data, err |-> err, success |-> success]
NoRet == Ret(<< >>, NoErr, FALSE)

Slot(set, data, a) == [set |-> set, data |-> data, args |-> a]
NoSlot == Slot(FALSE, << >>, NoArgs)

\* "pipe", "native"
BackendPipe == <<"p", "i", "p", "e">>
BackendNative == <<"n", "a", "t", "i", "v", "e">>

\* The environment variable: unset, or set to a string.
EnvUnset == [set |-> FALSE, val |-> << >>]
EnvSet(v) == [set |-> TRUE, val |-> v]
\* os.Getenv: the value, "" when the variable is unset.
Getenv(e) == IF e.set THEN e.val ELSE << >>

\* strings.ToLower on ASCII letters.
UpperCase == <<"A", "B", "C", "D", "E", "F", "G", "H", "I", "J", "K", "L", "M",
               "N", "O", "P", "Q", "R", "S", "T", "U", "V", "W", "X", "Y", "Z">>
LowerCase == <<"a", "b", "c", "d", "e", "f", "g", "h", "i", "j", "k", "l", "m",
               "n", "o", "p", "q", "r", "s", "t", "u", "v", "w", "x", "y", "z">>
LowerChar(c) ==
  IF \E i \in 1..26 : UpperCase[i] = c
  THEN LowerCase[CHOOSE i \in 1..26 : UpperCase[i] = c]
  ELSE c
ToLower(t) == [i \in 1..Len(t) |-> LowerChar(t[i])]

\* What the environment holds when the program starts, and what a program
\* passes to SetBackendType (BackendType is an open string type).
\* "", "pipe", "PIPE", "Pipe", "native", "other"
EnvValues ==
  {<< >>, BackendPipe, <<"P", "I", "P", "E">>, <<"P", "i", "p", "e">>,
   BackendNative, <<"o", "t", "h", "e", "r">>}
BackendInputs == {BackendPipe, BackendNative, <<"P", "I", "P", "E">>}

Seen(set, o, settings, json) ==
  [set |-> set, op |-> o, settings |-> settings, json |-> json]
NoSeen == Seen(FALSE, "none", DefaultSettings, << >>)

NoCall == [called |-> FALSE, t |-> << >>]
Called(t) == [called |-> TRUE, t |-> t]

\* The bridge's record of a request: open while the call is inside the
\* bridge, how often it was written to the worker's pipe, whether the worker
\* went away under it, and whether the call found the worker crashed and
\* started it again.
Req(open, dispatches, killed, restarted) ==
  [open |-> open, dispatches |-> dispatches, killed |-> killed,
   restarted |-> restarted]
NoReq == Req(FALSE, 0, FALSE, FALSE)

InitBindings ==
  /\ pc = "idle" /\ op = "none" /\ args = NoArgs /\ frame = NoFrame
  /\ cmem = EmptyMemory(CHandles) /\ nmem = EmptyMemory(NHandles)
  /\ r = NoResult /\ verdict = FALSE /\ sent = NoOutcome /\ ret = NoRet
  /\ proofSlot = NoSlot /\ vkSlot = NoSlot
  /\ lastSet = NoCall /\ got = NoCall /\ seen = NoSeen
  /\ worker = "NotStarted" /\ req = NoReq

\* A process started without BB_BACKEND_TYPE.
Init == InitBindings /\ env = EnvUnset

\* A process started with BB_BACKEND_TYPE=pipe.
InitWorker == InitBindings /\ env = EnvSet(BackendPipe)

\* A process started in any environment.
InitBackend == InitBindings /\ env \in {EnvUnset} \cup {EnvSet(v) : v \in EnvValues}

\* ------------------------------------------------------- backend selector
SetBackendType(t) ==
  /\ pc = "idle"
  /\ env' = EnvSet(t)
  /\ lastSet' = Called(t)
  /\ got' = NoCall
  /\ UNCHANGED <<bindings, seen, isolation>>

\* GetBackendType that answers pipe unless the variable says native.
GetBackendType_DefaultPipe ==
  /\ pc = "idle"
  /\ LET t == Getenv(env)
     IN got' = Called(IF ToLower(t) = BackendNative THEN BackendNative ELSE BackendPipe)
  /\ UNCHANGED <<env, lastSet>>
  /\ UNCHANGED <<bindings, seen, isolation>>

GetBackendType ==
  /\ pc = "idle"
  /\ LET t == Getenv(env)
     IN got' = Called(IF ToLower(t) = BackendPipe THEN BackendPipe ELSE BackendNative)
  /\ UNCHANGED <<env, lastSet>>
  /\ UNCHANGED <<bindings, seen, isolation>>

\* A call begins: the locals of the previous call are gone.
Enter(o, a) ==
  /\ pc = "idle"
  /\ op' = o /\ args' = a
  /\ r' = NoResult /\ verdict' = FALSE /\ sent' = NoOutcome

\* The engine returns the envelope for outcome o.
Deliver(o) ==
  /\ NeedsCell(o) => HasRoom(nmem)
  /\ r' = Layout(o, nmem).r
  /\ nmem' = Layout(o, nmem).nmem
  /\ sent' = o
  /\ pc' = "returned"

\* ------------------------------------------------------------------ InitSRS
InitSRS(bytecode) ==
  /\ Enter("InitSRS", Args(bytecode, << >>, DefaultSettings, << >>, << >>))
  /\ HasRoom(cmem)
  /\ frame' = Frame(NextHandle(cmem), NULL, NULL, TRUE)
  /\ cmem' = Alloc(cmem, CString(bytecode))
  /\ pc' = "native"
  /\ ret' = NoRet
  /\ UNCHANGED <<nmem, proofSlot, vkSlot>>
  /\ UNCHANGED <<backend, seen, isolation>>

bb_init_srs_from_bytecode ==
  /\ pc = "native" /\ op = "InitSRS"
  /\ Deliver(InitSrsOutcome(GoString(cmem.cells[frame.cBytecode].mem)))
  /\ cmem' = Touch(cmem, frame.cBytecode)
  /\ UNCHANGED <<op, args, frame, verdict, ret, proofSlot, vkSlot>>
  /\ UNCHANGED <<backend, seen, isolation>>

InitSRSReturn ==
  /\ pc = "returned" /\ op = "InitSRS"
  /\ LET res == resultToBytes(r, nmem)
     IN /\ nmem' = res.nmem
        /\ ret' = Ret(<< >>, res.err, res.err.nil)
  /\ cmem' = Release(cmem, frame.cBytecode)
  /\ pc' = "idle"
  /\ UNCHANGED <<op, args, frame, r, verdict, sent, proofSlot, vkSlot>>
  /\ UNCHANGED <<backend, seen, isolation>>

\* ----------------------------------------------------------- ProveUltraHonk
\* cBytecode and cWJSON are allocated before json.Marshal; the deferred frees
\* run on the early return too.
ProveUltraHonk(bytecode, witnessJson, settings) ==
  /\ Enter("ProveUltraHonk", Args(bytecode, witnessJson, settings, << >>, << >>))
  /\ Cardinality(DOMAIN cmem.cells \ Live(cmem)) >= 3
  /\ LET cBytecode == NextHandle(cmem)
         m1 == Alloc(cmem, CString(bytecode))
         cWJSON == NextHandle(m1)
         m2 == Alloc(m1, CString(witnessJson))
         settingsData == JsonMarshal(settings)
         cSettings == NextHandle(m2)
     IN IF ~settingsData.err.nil
        THEN /\ cmem' = Release(Release(m2, cWJSON), cBytecode)
             /\ frame' = Frame(cBytecode, cWJSON, NULL, FALSE)
             /\ ret' = Ret(<< >>, settingsData.err, FALSE)
             /\ pc' = "idle"
        ELSE /\ cmem' = Alloc(m2, CString(settingsData.data))
             /\ frame' = Frame(cBytecode, cWJSON, cSettings, TRUE)
             /\ ret' = NoRet
             /\ pc' = "native"
  /\ UNCHANGED <<nmem, proofSlot, vkSlot>>
  /\ UNCHANGED <<backend, seen, isolation>>

bb_prove_ultrahonk ==
  /\ pc = "native" /\ op = "ProveUltraHonk"
  /\ Deliver(ProveOutcome(GoString(cmem.cells[frame.cBytecode].mem),
                          GoString(cmem.cells[frame.cWJSON].mem),
                          GoString(cmem.cells[frame.cSettings].mem)))
  /\ cmem' = Touch(Touch(Touch(cmem, frame.cBytecode), frame.cWJSON), frame.cSettings)
  /\ UNCHANGED <<op, args, frame, verdict, ret, proofSlot, vkSlot>>
  /\ UNCHANGED <<backend, seen, isolation>>

\* ProveUltraHonk whose frees run on the success path only.
ProveUltraHonkReturn_FreeOnSuccess ==
  /\ pc = "returned" /\ op = "ProveUltraHonk"
  /\ LET res == resultToBytes(r, nmem)
     IN /\ nmem' = res.nmem
        /\ ret' = Ret(res.data, res.err, res.err.nil)
        /\ cmem' = IF res.err.nil
                   THEN Release(Release(Release(cmem, frame.cSettings), frame.cWJSON),
                                frame.cBytecode)
                   ELSE cmem
  /\ pc' = "idle"
  /\ UNCHANGED <<op, args, frame, r, verdict, sent, proofSlot, vkSlot>>
  /\ UNCHANGED <<backend, seen, isolation>>

ProveUltraHonkReturn ==
  /\ pc = "returned" /\ op = "ProveUltraHonk"
  /\ LET res == resultToBytes(r, nmem)
     IN /\ nmem' = res.nmem
        /\ ret' = Ret(res.data, res.err, res.err.nil)
  /\ cmem' = Release(Release(Release(cmem, frame.cSettings), frame.cWJSON), frame.cBytecode)
  /\ pc' = "idle"
  /\ UNCHANGED <<op, args, frame, r, verdict, sent, proofSlot, vkSlot>>
  /\ UNCHANGED <<backend, seen, isolation>>

\* ----------------------------------------------------------- GetVkUltraHonk
GetVkUltraHonk(bytecode, settings) ==
  /\ Enter("GetVkUltraHonk", Args(bytecode, << >>, settings, << >>, << >>))
  /\ Cardinality(DOMAIN cmem.cells \ Live(cmem)) >= 2
  /\ LET cBytecode == NextHandle(cmem)
         m1 == Alloc(cmem, CString(bytecode))
         settingsData == JsonMarshal(settings)
         cSettings == NextHandle(m1)
     IN IF ~settingsData.err.nil
        THEN /\ cmem' = Release(m1, cBytecode)
             /\ frame' = Frame(cBytecode, NULL, NULL, FALSE)
             /\ ret' = Ret(<< >>, settingsData.err, FALSE)
             /\ pc' = "idle"
        ELSE /\ cmem' = Alloc(m1, CString(settingsData.data))
             /\ frame' = Frame(cBytecode, NULL, cSettings, TRUE)
             /\ ret' = NoRet
             /\ pc' = "native"
  /\ UNCHANGED <<nmem, proofSlot, vkSlot>>
  /\ UNCHANGED <<backend, seen, isolation>>

bb_get_vk_ultrahonk ==
  /\ pc = "native" /\ op = "GetVkUltraHonk"
  /\ Deliver(GetVkOutcome(GoString(cmem.cells[frame.cBytecode].mem),
                          GoString(cmem.cells[frame.cSettings].mem)))
  /\ cmem' = Touch(Touch(cmem, frame.cBytecode), frame.cSettings)
  /\ UNCHANGED <<op, args, frame, verdict, ret, proofSlot, vkSlot>>
  /\ UNCHANGED <<backend, seen, isolation>>

GetVkUltraHonkReturn ==
  /\ pc = "returned" /\ op = "GetVkUltraHonk"
  /\ LET res == resultToBytes(r, nmem)
     IN /\ nmem' = res.nmem
        /\ ret' = Ret(res.data, res.err, res.err.nil)
  /\ cmem' = Release(Release(cmem, frame.cSettings), frame.cBytecode)
  /\ pc' = "idle"
  /\ UNCHANGED <<op, args, frame, r, verdict, sent, proofSlot, vkSlot>>
  /\ UNCHANGED <<backend, seen, isolation>>

\* ---------------------------------------------------------- VerifyUltraHonk
\* VerifyUltraHonk that checks the length of the proof only.
VerifyUltraHonk_ProofOnly(proof, vk, settings) ==
  /\ Enter("VerifyUltraHonk", Args(<< >>, << >>, settings, proof, vk))
  /\ HasRoom(cmem)
  /\ LET settingsData == JsonMarshal(settings)
     IN IF Len(proof) = 0 \/ ~settingsData.err.nil
        THEN /\ cmem' = cmem
             /\ frame' = NoFrame
             /\ ret' = Ret(<< >>, NoErr, FALSE)
             /\ pc' = "idle"
        ELSE /\ cmem' = Alloc(cmem, CString(settingsData.data))
             /\ frame' = Frame(NULL, NULL, NextHandle(cmem), TRUE)
             /\ ret' = NoRet
             /\ pc' = "native"
  /\ UNCHANGED <<nmem, proofSlot, vkSlot>>
  /\ UNCHANGED <<backend, seen, isolation>>

\* VerifyUltraHonk that encodes the default settings instead of its argument.
VerifyUltraHonk_DefaultSettings(proof, vk, settings) ==
  /\ Enter("VerifyUltraHonk", Args(<< >>, << >>, settings, proof, vk))
  /\ HasRoom(cmem)
  /\ LET settingsData == JsonMarshal(DefaultSettings)
     IN IF Len(proof) = 0 \/ Len(vk) = 0 \/ ~settingsData.err.nil
        THEN /\ cmem' = cmem
             /\ frame' = NoFrame
             /\ ret' = Ret(<< >>, NoErr, FALSE)
             /\ pc' = "idle"
        ELSE /\ cmem' = Alloc(cmem, CString(settingsData.data))
             /\ frame' = Frame(NULL, NULL, NextHandle(cmem), TRUE)
             /\ ret' = NoRet
             /\ pc' = "native"
  /\ UNCHANGED <<nmem, proofSlot, vkSlot>>
  /\ UNCHANGED <<backend, seen, isolation>>

\* VerifyUltraHonk whose early returns answer true.
VerifyUltraHonk_EarlyTrue(proof, vk, settings) ==
  /\ Enter("VerifyUltraHonk", Args(<< >>, << >>, settings, proof, vk))
  /\ HasRoom(cmem)
  /\ LET settingsData == JsonMarshal(settings)
     IN IF Len(proof) = 0 \/ Len(vk) = 0 \/ ~settingsData.err.nil
        THEN /\ cmem' = cmem
             /\ frame' = NoFrame
             /\ ret' = Ret(<< >>, NoErr, TRUE)
             /\ pc' = "idle"
        ELSE /\ cmem' = Alloc(cmem, CString(settingsData.data))
             /\ frame' = Frame(NULL, NULL, NextHandle(cmem), TRUE)
             /\ ret' = NoRet
             /\ pc' = "native"
  /\ UNCHANGED <<nmem, proofSlot, vkSlot>>
  /\ UNCHANGED <<backend, seen, isolation>>

\* The proof and the key are passed by pointer into the Go slices; only the
\* settings string is copied to the C heap.
VerifyUltraHonk(proof, vk, settings) ==
  /\ Enter("VerifyUltraHonk", Args(<< >>, << >>, settings, proof, vk))
  /\ HasRoom(cmem)
  /\ LET settingsData == JsonMarshal(settings)
     IN IF Len(proof) = 0 \/ Len(vk) = 0
        THEN /\ cmem' = cmem
             /\ frame' = NoFrame
             /\ ret' = Ret(<< >>, NoErr, FALSE)
             /\ pc' = "idle"
        ELSE IF ~settingsData.err.nil
        THEN /\ cmem' = cmem
             /\ frame' = NoFrame
             /\ ret' = Ret(<< >>, NoErr, FALSE)
             /\ pc' = "idle"
        ELSE /\ cmem' = Alloc(cmem, CString(settingsData.data))
             /\ frame' = Frame(NULL, NULL, NextHandle(cmem), TRUE)
             /\ ret' = NoRet
             /\ pc' = "native"
  /\ UNCHANGED <<nmem, proofSlot, vkSlot>>
  /\ UNCHANGED <<backend, seen, isolation>>

bb_verify_ultrahonk ==
  /\ pc = "native" /\ op = "VerifyUltraHonk"
  /\ verdict' = VerifyOutcome(args.proof, args.vk,
                              GoString(cmem.cells[frame.cSettings].mem))
  /\ cmem' = Touch(cmem, frame.cSettings)
  /\ pc' = "returned"
  /\ UNCHANGED <<op, args, frame, nmem, r, sent, ret, proofSlot, vkSlot>>
  /\ UNCHANGED <<backend, seen, isolation>>

VerifyUltraHonkReturn ==
  /\ pc = "returned" /\ op = "VerifyUltraHonk"
  /\ ret' = Ret(<< >>, NoErr, verdict)
  /\ cmem' = Release(cmem, frame.cSettings)
  /\ pc' = "idle"
  /\ UNCHANGED <<op, args, frame, nmem, r, verdict, sent, proofSlot, vkSlot>>
  /\ UNCHANGED <<backend, seen, isolation>>

\* A proof with its last byte changed.
Tamper(bytes) ==
  IF bytes = << >> THEN << >>
  ELSE [bytes EXCEPT ![Len(bytes)] = (bytes[Len(bytes)] + 1) % 256]

\* The proofs and keys a caller has at hand to verify: none, bytes of its
\* own, the proof and the key it kept, and the proof tampered with.
ProofCandidates == {<< >>, <<9>>, proofSlot.data, Tamper(proofSlot.data)}
VkCandidates == {<< >>, <<9>>, vkSlot.data}

\* The caller keeps the proof of a successful ProveUltraHonk
\* (proof, err := ProveUltraHonk(...); if err != nil { t.Fatalf }).
KeepProof ==
  /\ pc = "idle" /\ op = "ProveUltraHonk" /\ ret.err.nil
  /\ proofSlot' = Slot(TRUE, ret.data, args)
  /\ UNCHANGED <<pc, op, args, frame, cmem, nmem, r, verdict, sent, ret, vkSlot>>
  /\ UNCHANGED <<backend, seen, isolation>>

\* The caller keeps the key of a successful GetVkUltraHonk.
KeepVk ==
  /\ pc = "idle" /\ op = "GetVkUltraHonk" /\ ret.err.nil
  /\ vkSlot' = Slot(TRUE, ret.data, args)
  /\ UNCHANGED <<pc, op, args, frame, cmem, nmem, r, verdict, sent, ret, proofSlot>>
  /\ UNCHANGED <<backend, seen, isolation>>

\* --------------------------------------------------- instrumented engine
\* An instrumented engine returns a canned envelope.
MockEnvelope ==
  /\ pc = "native" /\ op \in {"InitSRS", "ProveUltraHonk", "GetVkUltraHonk"}
  /\ \E o \in MockOutcomes : Deliver(o)
  /\ UNCHANGED <<op, args, frame, cmem, verdict, ret, proofSlot, vkSlot>>
  /\ UNCHANGED <<backend, seen, isolation>>

\* An instrumented engine returns a canned verdict.
MockVerdict ==
  /\ pc = "native" /\ op = "VerifyUltraHonk"
  /\ verdict' \in BOOLEAN
  /\ pc' = "returned"
  /\ UNCHANGED <<op, args, frame, cmem, nmem, r, sent, ret, proofSlot, vkSlot>>
  /\ UNCHANGED <<backend, seen, isolation>>

\* An instrumented engine records the settings string it is passed, next to
\* the settings the caller gave, and returns Ok with the null span.
ProbeEnvelope ==
  /\ pc = "native" /\ op \in {"ProveUltraHonk", "GetVkUltraHonk"}
  /\ seen' = Seen(TRUE, op, args.settings, GoString(cmem.cells[frame.cSettings].mem))
  /\ Deliver(Outcome("OkNull", << >>, << >>))
  /\ cmem' = Touch(cmem, frame.cSettings)
  /\ UNCHANGED <<op, args, frame, verdict, ret, proofSlot, vkSlot, backend, isolation>>

\* The same for bb_verify_ultrahonk; it rejects the proof.
ProbeVerdict ==
  /\ pc = "native" /\ op = "VerifyUltraHonk"
  /\ seen' = Seen(TRUE, op, args.settings, GoString(cmem.cells[frame.cSettings].mem))
  /\ verdict' = FALSE
  /\ cmem' = Touch(cmem, frame.cSettings)
  /\ pc' = "returned"
  /\ UNCHANGED <<op, args, frame, nmem, r, sent, ret, proofSlot, vkSlot, backend,
               isolation>>

\* ---------------------------------------------------------- isolated worker
\* With BB_BACKEND_TYPE=pipe the bridge behind the bb_* functions hands each
\* request to a persistent bb worker process over a pipe:
\*   NotStarted -> Starting -> Ready -> (Busy <-> Ready) -> Crashed,
\*   Crashed -> Starting on the next call.
PipeSelected == ToLower(Getenv(env)) = BackendPipe

\* The bridge takes the call.  A worker that is not running is started now,
\* lazily; a running one is used as it is.
WorkerAccept ==
  /\ pc = "native" /\ ~req.open /\ PipeSelected
  /\ req' = Req(TRUE, 0, FALSE, worker = "Crashed")
  /\ worker' = IF worker \in {"NotStarted", "Crashed"} THEN "Starting" ELSE worker
  /\ UNCHANGED <<bindings, backend, seen>>

\* Starting -> Ready on the handshake.
WorkerHandshake ==
  /\ pc = "native" /\ req.open /\ worker = "Starting"
  /\ worker' = "Ready"
  /\ UNCHANGED <<bindings, backend, seen, req>>

\* Ready -> Busy: the request is framed from the C strings of the call and
\* written to the pipe.
WorkerDispatch ==
  /\ pc = "native" /\ req.open /\ worker = "Ready" /\ req.dispatches = 0
  /\ worker' = "Busy"
  /\ req' = [req EXCEPT !.dispatches = req.dispatches + 1]
  /\ LET read(m, h) == IF h = NULL THEN m ELSE Touch(m, h)
     IN cmem' = read(read(read(cmem, frame.cBytecode), frame.cWJSON), frame.cSettings)
  /\ UNCHANGED <<pc, op, args, frame, nmem, r, verdict, sent, ret, proofSlot, vkSlot>>
  /\ UNCHANGED <<backend, seen>>

\* What the worker answers to the request in flight.
PendingOutcome ==
  CASE op = "InitSRS" ->
         InitSrsOutcome(GoString(cmem.cells[frame.cBytecode].mem))
    [] op = "ProveUltraHonk" ->
         ProveOutcome(GoString(cmem.cells[frame.cBytecode].mem),
                      GoString(cmem.cells[frame.cWJSON].mem),
                      GoString(cmem.cells[frame.cSettings].mem))
    [] op = "GetVkUltraHonk" ->
         GetVkOutcome(GoString(cmem.cells[frame.cBytecode].mem),
                      GoString(cmem.cells[frame.cSettings].mem))
    [] OTHER -> NoOutcome

\* The bridge hands outcome o, or verdict v of bb_verify_ultrahonk, back to
\* the caller.
WorkerReply(o, v) ==
  IF op = "VerifyUltraHonk"
  THEN /\ verdict' = v
       /\ pc' = "returned"
       /\ UNCHANGED <<nmem, r, sent>>
  ELSE /\ Deliver(o)
       /\ UNCHANGED verdict

\* Busy -> Ready: the response arrives.
WorkerRespond ==
  /\ pc = "native" /\ req.open /\ worker = "Busy"
  /\ WorkerReply(PendingOutcome,
                 op = "VerifyUltraHonk"
                   /\ VerifyOutcome(args.proof, args.vk,
                                    GoString(cmem.cells[frame.cSettings].mem)))
  /\ worker' = "Ready"
  /\ req' = [req EXCEPT !.open = FALSE]
  /\ UNCHANGED <<op, args, frame, cmem, ret, proofSlot, vkSlot>>
  /\ UNCHANGED <<backend, seen>>

\* Busy -> Crashed: the pipe closes or the worker exits before a response
\* arrives.  The pending call gets the termination error; bb_verify_ultrahonk
\* has only its bool to answer with.
WorkerKill ==
  /\ pc = "native" /\ req.open /\ worker = "Busy"
  /\ WorkerReply(EngineErr(MsgBackendTerminated), FALSE)
  /\ worker' = "Crashed"
  /\ req' = [req EXCEPT !.open = FALSE, !.killed = TRUE]
  /\ UNCHANGED <<op, args, frame, cmem, ret, proofSlot, vkSlot>>
  /\ UNCHANGED <<backend, seen>>

\* ------------------------------------------------------------ specifications
Call ==
  \/ \E b \in Bytecodes : InitSRS(b)
  \/ \E b \in Bytecodes, w \in Witnesses, s \in ProofSystemSettings :
       ProveUltraHonk(b, w, s)
  \/ \E b \in Bytecodes, s \in ProofSystemSettings : GetVkUltraHonk(b, s)
  \/ \E p \in ProofCandidates, k \in VkCandidates, s \in ProofSystemSettings :
       VerifyUltraHonk(p, k, s)

Engine ==
  \/ bb_init_srs_from_bytecode
  \/ bb_prove_ultrahonk
  \/ bb_get_vk_ultrahonk
  \/ bb_verify_ultrahonk

Return ==
  \/ InitSRSReturn
  \/ ProveUltraHonkReturn
  \/ GetVkUltraHonkReturn
  \/ VerifyUltraHonkReturn

\* A caller that keeps its proofs and keys, over the engine alone.
NextEngine == Call \/ Engine \/ Return \/ KeepProof \/ KeepVk
SpecEngine == Init /\ [][NextEngine]_vars

\* A program that selects a backend and initialises the SRS.
NextBackend ==
  \/ \E t \in BackendInputs : SetBackendType(t)
  \/ GetBackendType
  \/ \E b \in Bytecodes : InitSRS(b)
  \/ bb_init_srs_from_bytecode
  \/ InitSRSReturn
SpecBackend == InitBackend /\ [][NextBackend]_vars

\* The bindings over the isolated worker.
Worker ==
  \/ WorkerAccept
  \/ WorkerHandshake
  \/ WorkerDispatch
  \/ WorkerRespond
  \/ WorkerKill
NextWorker == Call \/ Worker \/ Return
SpecWorker == InitWorker /\ [][NextWorker]_vars

\* The operations that encode settings, over an engine that records them.
CallWithSettings ==
  \/ \E b \in Bytecodes, w \in Witnesses, s \in ProofSystemSettings :
       ProveUltraHonk(b, w, s)
  \/ \E b \in Bytecodes, s \in ProofSystemSettings : GetVkUltraHonk(b, s)
  \/ \E p \in ProofCandidates, k \in VkCandidates, s \in ProofSystemSettings :
       VerifyUltraHonk(p, k, s)
NextCodec ==
  \/ CallWithSettings
  \/ ProbeEnvelope
  \/ ProbeVerdict
  \/ ProveUltraHonkReturn
  \/ GetVkUltraHonkReturn
  \/ VerifyUltraHonkReturn
SpecCodec == Init /\ [][NextCodec]_vars

\* The bindings over the engine or an instrumented stand-in for it.
Next == Call \/ Engine \/ Return \/ MockEnvelope \/ MockVerdict
Spec == Init /\ [][Next]_vars

\* ------------------------------------------------------------------ claims
BBResultOps == {"InitSRS", "ProveUltraHonk", "GetVkUltraHonk"}

\* C1: whatever envelope the engine returned (Ok with bytes, Ok with an
\* empty span, Err with a message), once InitSRS, ProveUltraHonk or
\* GetVkUltraHonk has returned no span or message of the engine is still
\* allocated and none was released twice.
C1_NativeReleasedOnce ==
  /\ ~nmem.badFree
  /\ pc = "idle" => Live(nmem) = {}

\* ProveUltraHonk has returned after the engine answered Err with a message.
C1_Witness ==
  /\ pc = "idle" /\ op = "ProveUltraHonk"
  /\ sent.kind = "ErrMsg" /\ ~ret.err.nil

FramePointers == {frame.cBytecode, frame.cWJSON, frame.cSettings} \ {NULL}

\* C2: the C copies of bytecode, witness JSON and settings JSON an operation
\* allocates are all allocated while the engine runs and is never read after
\* a release, and all are released, each once, when the operation has
\* returned.
C2_HostSpansReleasedOnce ==
  /\ ~cmem.badFree /\ ~cmem.uaf
  /\ pc = "native" => \A h \in FramePointers : cmem.cells[h].live
  /\ pc = "idle" => Live(cmem) = {}

\* ProveUltraHonk has returned the engine's error after allocating its three
\* request spans.
C2_Witness ==
  /\ pc = "idle" /\ op = "ProveUltraHonk" /\ ~ret.err.nil
  /\ Cardinality(FramePointers) = 3

EmptyInput == Len(args.proof) = 0 \/ Len(args.vk) = 0

\* C3: VerifyUltraHonk with a zero-length proof or key returns false without
\* entering the engine and without allocating the settings span, whatever
\* the settings.
C3_EmptyInputReturnsFalse ==
  (op = "VerifyUltraHonk" /\ EmptyInput) =>
     /\ pc = "idle"
     /\ ~ret.success
     /\ ~frame.invoked /\ frame.cSettings = NULL
     /\ Live(cmem) = {}

\* VerifyUltraHonk has returned for a proof with an empty key under settings
\* other than the default.
C3_Witness ==
  /\ pc = "idle" /\ op = "VerifyUltraHonk"
  /\ Len(args.proof) > 0 /\ Len(args.vk) = 0
  /\ args.settings # DefaultSettings

\* A verification that returned nothing but the bool false.
PlainFalse == Ret(<< >>, NoErr, FALSE)

C5_EncodingFailsClosed ==
  (op \in {"ProveUltraHonk", "GetVkUltraHonk"}
     /\ args.settings.OracleHashType \notin FixedTokens) =>
       /\ pc = "idle"
       /\ ~frame.invoked
       /\ ~ret.err.nil

\* C6: when the engine answered Err with message m, the operation returns an
\* error whose text is m, character for character, and no bytes.
C6_ErrMessageVerbatim ==
  (pc = "idle" /\ op \in BBResultOps /\ sent.kind = "ErrMsg") =>
     /\ ~ret.err.nil
     /\ ret.err.text = sent.msg
     /\ ret.data = << >>
     /\ ~ret.success

\* GetVkUltraHonk has returned the engine's message, one that holds quotes
\* and spaces.
C6_Witness ==
  /\ pc = "idle" /\ op = "GetVkUltraHonk"
  /\ sent.kind = "ErrMsg" /\ Len(sent.msg) > 4
  /\ ret.err.text = sent.msg

\* C7: when the engine answered Ok with an empty span (null pointer, or
\* length zero), the operation returns no bytes and a nil error; InitSRS
\* returns a nil error for every Ok envelope.
C7_EmptyOkIsSuccess ==
  (pc = "idle" /\ op \in BBResultOps) =>
     /\ sent.kind \in {"OkNull", "OkSpare"} =>
          ret.err.nil /\ ret.data = << >> /\ ret.success
     /\ (op = "InitSRS" /\ sent.kind \in {"OkData", "OkNull", "OkSpare"}) =>
          ret.err.nil

\* ProveUltraHonk has returned after the engine answered Ok with an
\* allocated span of length zero.
C7_Witness ==
  /\ pc = "idle" /\ op = "ProveUltraHonk"
  /\ sent.kind = "OkSpare" /\ ret.err.nil

\* The canonical encoding of DefaultSettings():
\* {"ipa_accumulation":false,"oracle_hash_type":"poseidon2","disable_zk":false,"optimized_solidity_verifier":false}
S0 ==
  <<"{", "\"", "i", "p", "a", "_", "a", "c", "c", "u", "m", "u", "l", "a",
    "t", "i", "o", "n", "\"", ":", "f", "a", "l", "s", "e", ",", "\"", "o",
    "r", "a", "c", "l", "e", "_", "h", "a", "s", "h", "_", "t", "y", "p",
    "e", "\"", ":", "\"", "p", "o", "s", "e", "i", "d", "o", "n", "2", "\"",
    ",", "\"", "d", "i", "s", "a", "b", "l", "e", "_", "z", "k", "\"", ":",
    "f", "a", "l", "s", "e", ",", "\"", "o", "p", "t", "i", "m", "i", "z",
    "e", "d", "_", "s", "o", "l", "i", "d", "i", "t", "y", "_", "v", "e",
    "r", "i", "f", "i", "e", "r", "\"", ":", "f", "a", "l", "s", "e", "}">>

\* The settings string the engine is handed in the call in progress.
WireString == GoString(cmem.cells[frame.cSettings].mem)

VerifiesOwnProof ==
  /\ pc = "idle" /\ op = "VerifyUltraHonk"
  /\ proofSlot.set /\ vkSlot.set
  /\ args.proof = proofSlot.data /\ args.vk = vkSlot.data
  /\ proofSlot.args.bytecode = vkSlot.args.bytecode
  /\ proofSlot.args.settings = args.settings
  /\ vkSlot.args.settings = args.settings
  /\ Satisfies(proofSlot.args.witness, proofSlot.args.bytecode)

PipeSpellings == {BackendPipe, <<"P", "I", "P", "E">>, <<"P", "i", "p", "e">>}

\* C10: GetBackendType after SetBackendType(t), t pipe or native, returns t;
\* it returns native when the variable is unset or holds no spelling of
\* "pipe"; and a GetBackendType never changes the variable.
C10_GetBackendType ==
  /\ [](got.called =>
          /\ (lastSet.called /\ lastSet.t \in {BackendPipe, BackendNative}) =>
               got.t = lastSet.t
          /\ ~env.set => got.t = BackendNative
          /\ Getenv(env) \notin PipeSpellings => got.t = BackendNative)
  /\ [][(got'.called /\ got' # got) => env' = env]_vars

\* GetBackendType has returned pipe after SetBackendType(BackendPipe).
C10_Witness ==
  /\ got.called /\ lastSet.called
  /\ lastSet.t = BackendPipe /\ got.t = BackendPipe

\* What an operation returns for the outcome o of a request that was answered.
AsRet(o) ==
  IF o.kind = "ErrMsg" THEN Ret(<< >>, ErrorsNew(o.msg), FALSE)
  ELSE Ret(o.bytes, NoErr, TRUE)

\* The call in hand returned what the engine computes for its arguments.
NormalReturn ==
  LET json == JsonMarshal(args.settings).data
  IN CASE op = "InitSRS" -> ret = AsRet(InitSrsOutcome(args.bytecode))
       [] op = "ProveUltraHonk" ->
            ret = AsRet(ProveOutcome(args.bytecode, args.witness, json))
       [] op = "GetVkUltraHonk" ->
            /\ ret = AsRet(GetVkOutcome(args.bytecode, json))
            /\ (ValidCircuit(args.bytecode) /\ args.settings \in ValidSettings) =>
                 ret = Ret(VkBytes(args.bytecode, args.settings), NoErr, TRUE)
       [] OTHER ->
            ret = Ret(<< >>, NoErr, VerifyOutcome(args.proof, args.vk, json))

\* The call that just returned went through the worker.
ThroughWorker == pc = "idle" /\ frame.invoked

DataOps == {"ProveUltraHonk", "GetVkUltraHonk"}

\* resultToBytes runs on a result that carries engine memory.
CopiesSpan ==
  /\ pc = "returned" /\ pc' = "idle" /\ op \in BBResultOps
  /\ r.ok /\ r.data.ptr # NULL /\ r.data.len > 0
CopiesMessage ==
  /\ pc = "returned" /\ pc' = "idle" /\ op \in BBResultOps
  /\ ~r.ok /\ r.err # NULL

\* C12: resultToBytes copies a span or a message while the engine still
\* holds it and releases it in the same call, after the copy; engine memory
\* is never read once released; and what the caller gets (the message, and
\* the bytes for the operations that return bytes) is the content the engine
\* handed over, still intact when the engine's memory is gone.
C12_CopyBeforeRelease ==
  /\ [](~nmem.uaf /\ ~nmem.badFree)
  /\ []((pc = "idle" /\ frame.invoked /\ op \in BBResultOps) =>
          /\ Live(nmem) = {}
          /\ sent.kind = "OkData" =>
               (ret.err.nil /\ (op \in DataOps => ret.data = sent.bytes))
          /\ sent.kind = "ErrMsg" => (~ret.err.nil /\ ret.err.text = sent.msg))
  /\ [][/\ CopiesSpan =>
            /\ nmem.cells[r.data.ptr].live
            /\ ~nmem'.cells[r.data.ptr].live
            /\ op \in DataOps =>
                 ret'.data = SubSeq(nmem.cells[r.data.ptr].mem, 1, r.data.len)
        /\ CopiesMessage =>
            /\ nmem.cells[r.err].live
            /\ ~nmem'.cells[r.err].live
            /\ CString(ret'.err.text) = nmem.cells[r.err].mem]_vars

\* An error message was returned intact by ProveUltraHonk with the engine
\* heap empty again.
C12_Witness ==
  /\ pc = "idle" /\ frame.invoked /\ op = "ProveUltraHonk"
  /\ sent.kind = "ErrMsg" /\ sent.msg # << >> /\ ret.err.text = sent.msg
  /\ Live(nmem) = {} /\ ~nmem.uaf

====
